---- MODULE Spec2Model ----
(***************************************************************************)
(* Model of surreal/replay/base.py: the Replay engine.  Policy operations  *)
(* run as jobs of a single-worker job queue; evicted experiences are       *)
(* cleaned up by decrementing the reference counts of their observation    *)
(* pointers and mass-deleting the pointers that dropped to zero; a         *)
(* prefetch loop samples batches and reserves their observations by        *)
(* incrementing the reference counts.                                      *)
(***************************************************************************)
EXTENDS Integers, Sequences, FiniteSets, TLC

\* ---------------------------------------------------------------- bounds
\* Number of experiences the producers create.
NumRecords == 3
\* Number of batches the prefetch loop samples.
MaxSamples == 2
\* Capacity of the replay policy (passive eviction above it).
Capacity == 1
\* replay_config.batch_size
batch_size == 1
\* replay_config.fetch_queue_size
fetch_queue_size == 1
\* replay_config.exp_queue_size
exp_queue_size == 1
\* Number of start_evict_thread / stop_evict_thread calls the caller makes.
MaxCalls == 4
\* Number of times the generator of sample_iterator is resumed.
MaxIter == 3

\* ------------------------------------------------------------ experiences
ObsPointers == {1, 2}

\* The experience dictionary number i.  Some experiences carry no
\* 'obs_pointers' key and some no 'exp_pointer' key (lines 202, 204).
ExpDict(i) ==
    IF i % 3 = 1 THEN [id |-> i, obs_pointers |-> <<1>>, exp_pointer |-> 100 + i]
    ELSE IF i % 3 = 2 THEN [id |-> i, exp_pointer |-> 100 + i]
    ELSE [id |-> i, obs_pointers |-> <<1, 2>>]

Range(s) == {s[k] : k \in 1..Len(s)}

RECURSIVE ObsPointersOf(_)
\* for exp in list: if 'obs_pointers' in exp: obs_pointers.extend(...)
ObsPointersOf(list) ==
    IF list = <<>> THEN <<>>
    ELSE (IF "obs_pointers" \in DOMAIN Head(list)
             THEN Head(list).obs_pointers ELSE <<>>)
         \o ObsPointersOf(Tail(list))

RECURSIVE ExpPointersOf(_)
\* for exp in list: if 'exp_pointer' in exp: evict_exp_pointers.append(...)
ExpPointersOf(list) ==
    IF list = <<>> THEN <<>>
    ELSE (IF "exp_pointer" \in DOMAIN Head(list)
             THEN <<Head(list).exp_pointer>> ELSE <<>>)
         \o ExpPointersOf(Tail(list))

\* ------------------------------------------------------ reference counter
RECURSIVE incr_ref_count(_, _)
\* Each pointer's counter is increased by 1, once per occurrence.
incr_ref_count(rc, ptrs) ==
    IF ptrs = <<>> THEN rc
    ELSE incr_ref_count([rc EXCEPT ![Head(ptrs)] = @ + 1], Tail(ptrs))

\* RedisClient.mdel: the keys are removed from the store.
mdel(st, keys) == st \ Range(keys)

RECURSIVE DecrPipe(_, _)
\* Each pointer's counter is decreased by 1, once per occurrence; the
\* pointers whose counter dropped to 0 are collected, in order.
DecrPipe(rc, ptrs) ==
    IF ptrs = <<>> THEN [rc |-> rc, zeros |-> <<>>]
    ELSE LET p    == Head(ptrs)
             rc1  == [rc EXCEPT ![p] = @ - 1]
             rest == DecrPipe(rc1, Tail(ptrs))
         IN  [rc    |-> rest.rc,
              zeros |-> (IF rc1[p] = 0 THEN <<p>> ELSE <<>>) \o rest.zeros]

\* decr_ref_count(client, obs_pointers, delete): returns the pointers whose
\* count dropped to 0 (line 214); with delete set it removes them from the
\* store itself.
decr_ref_count(rc, st, ptrs, delete) ==
    LET r == DecrPipe(rc, ptrs)
    IN  [rc |-> r.rc, zeros |-> r.zeros,
         st |-> IF delete THEN mdel(st, r.zeros) ELSE st]

\* ----------------------------------------------------------------- policy
\* _insert of a first-in-first-out policy with passive eviction.
PolicyInsert(mem, exp) ==
    LET m == Append(mem, exp)
    IN  IF Len(m) > Capacity
           THEN [mem |-> Tail(m), evicted |-> <<Head(m)>>]
           ELSE [mem |-> m, evicted |-> <<>>]

\* _evict: the default returns [] (n = 0); an overriding policy evicts the
\* n oldest experiences.
PolicyEvict(mem, n) ==
    [mem |-> SubSeq(mem, n + 1, Len(mem)), evicted |-> SubSeq(mem, 1, n)]

\* _sample(batch_size): any batch_size stored experiences.
PolicySamples(mem) ==
    {[k \in 1..batch_size |-> mem[f[k]]] : f \in [1..batch_size -> 1..Len(mem)]}

start_sample_condition(mem) == Len(mem) >= batch_size

\* ------------------------------------------------------------------ state
VARIABLES
    refcount,     \* store: reference counter of each observation pointer
    stored,       \* store: keys (observation and experience pointers) present
    produced,     \* number of experiences the producers have created
    remote,       \* store: the list of experiences pushed by the producers
    inbox,        \* experiences handed to a direct caller of insert()
    expq,         \* ExpQueue: the bounded ingest buffer
    fetchq,       \* ObsFetchQueue: the bounded prefetch buffer
    consumed,     \* batches sample() has handed to the consumer
    memory,       \* the policy's stored experiences
    jobs,         \* JobQueue: submitted jobs, in submission order
    cur,          \* JobQueue: the job the worker is executing
    wpc,          \* position of the worker inside the job
    sampled,      \* sampled_exp_list of the running sample job
    executing,    \* per thread: the policy operation it is inside
    pc,           \* position of each calling thread
    res,          \* per calling thread: what process() delivered
    cl,           \* per cleaning thread: the running or last _clean_evicted
    nSampled,     \* number of batches sampled so far
    loop,         \* per background loop: "run", "stop" (asked to stop), "done"
    mainpc,       \* position of the caller of stop_queue_threads
    evict_thread, \* Replay._evict_thread: "none" or the thread
    stopped,      \* eviction threads whose stop flag is set
    api,          \* the last start_evict_thread / stop_evict_thread call
    policy,       \* the policy methods the Replay subclass implements
    gen           \* the generator sample_iterator() returned

storeV == <<refcount, stored>>
prodV  == <<produced, remote, inbox>>
bufV   == <<expq, fetchq, consumed>>
workV  == <<jobs, cur, wpc, sampled, executing>>
lifeV  == <<loop, mainpc>>
evictV == <<evict_thread, stopped, api>>

vars == <<refcount, stored, produced, remote, inbox, expq, fetchq, consumed,
          memory, jobs, cur, wpc, sampled, executing, pc, res, cl, nSampled,
          loop, mainpc, evict_thread, stopped, api, policy, gen>>

\* The thread objects start_evict_thread can create, in creation order.
EvictThreads == <<"evict1", "evict2", "evict3">>

Inserters == {"ingest", "user"}
Callers   == Inserters \cup {"prefetch", "evictor"} \cup Range(EvictThreads)
Threads   == Callers \cup {"worker"}
Cleaners  == Inserters \cup {"worker"}
Loops     == {"worker", "enqueue", "ingest", "prefetch"}

Pending == [kind |-> "pending"]
NoJob   == [fn |-> "none"]
NoArg   == [id |-> 0]
NoClean == [phase |-> "off", ev |-> <<>>, zeros |-> <<>>, exps |-> <<>>,
            decr |-> <<>>, mdels |-> <<>>]

\* ExpQueue as it would be built with another maxsize than the configured
\* one.
ExpQueueMaxsizeOther == exp_queue_size + 1

\* Line 70: ExpQueue(maxsize=self.replay_config.exp_queue_size)
ExpQueueMaxsize == exp_queue_size

\* Line 74: ObsFetchQueue(maxsize=self.replay_config.fetch_queue_size)
ObsFetchQueueMaxsize == fetch_queue_size

\* The policy methods of Replay a subclass may override (lines 94-141).
Methods == {"_insert", "_sample", "_evict", "start_sample_condition"}

\* No value: no _sample has returned, no generator has been created.
NoSample == [type |-> "none"]
NoGen    == [pc |-> "none", default |-> FALSE, trues |-> 0, falses |-> 0,
             calls |-> 0, yields |-> 0]

\* Replay.__init__ (lines 67-77) followed by _initialize (line 80): empty
\* buffers, the queue threads running, no eviction thread; the store holds
\* nothing yet.
InitEngine ==
    /\ refcount = [p \in ObsPointers |-> 0]
    /\ stored = {}
    /\ produced = 0
    /\ remote = <<>>
    /\ inbox = <<>>
    /\ expq = <<>>
    /\ fetchq = <<>>
    /\ consumed = <<>>
    /\ memory = <<>>
    /\ jobs = <<>>
    /\ cur = NoJob
    /\ wpc = "idle"
    /\ sampled = NoSample
    /\ executing = [t \in Threads |-> "none"]
    /\ pc = [t \in Callers |-> IF t \in Range(EvictThreads) THEN "new" ELSE "idle"]
    /\ res = [t \in Callers |-> Pending]
    /\ cl = [c \in Cleaners |-> NoClean]
    /\ nSampled = 0
    /\ loop = [l \in Loops |-> "run"]
    /\ mainpc = "idle"
    /\ evict_thread = "none"
    /\ stopped = {}
    /\ api = [n |-> 0, call |-> "none", had |-> FALSE, outcome |-> "ok"]
    /\ gen = NoGen

\* A Replay subclass that implements every policy method.
Init ==
    /\ InitEngine
    /\ policy = Methods

\* Replay itself or a subclass that implements any of the policy methods.
InitPolicy ==
    /\ InitEngine
    /\ policy \in SUBSET Methods

\* -------------------------------------------------------------- producers
\* A producer creates experience number produced+1: it stores the
\* observations and the experience, counts one reference per observation
\* pointer, and either pushes the experience onto the store's list or hands
\* it to a direct caller of insert().
Produce(direct) ==
    /\ produced < NumRecords
    /\ LET exp == ExpDict(produced + 1)
       IN  /\ refcount' = incr_ref_count(refcount, ObsPointersOf(<<exp>>))
           /\ stored' = stored \cup Range(ObsPointersOf(<<exp>>))
                               \cup Range(ExpPointersOf(<<exp>>))
           /\ IF direct
                 THEN inbox' = Append(inbox, exp) /\ UNCHANGED remote
                 ELSE remote' = Append(remote, exp) /\ UNCHANGED inbox
    /\ produced' = produced + 1
    /\ UNCHANGED <<bufV, memory, workV, pc, res, cl, nSampled, lifeV, evictV, policy, gen>>

\* -------------------------------------------------------------- job queue
\* JobQueue.process: the job is queued and the caller blocks until the
\* worker has run it; once the queue is asked to stop, a submission fails
\* at once with a shutdown error.
process(t, fn, arg) ==
    /\ pc' = [pc EXCEPT ![t] = "wait"]
    /\ IF loop["worker"] = "run"
          THEN /\ jobs' = Append(jobs, [caller |-> t, fn |-> fn, arg |-> arg])
               /\ UNCHANGED res
          ELSE /\ res' = [res EXCEPT ![t] = [kind |-> "err", err |-> "shutdown"]]
               /\ UNCHANGED jobs

\* The worker hands the job's result to its caller and turns to the next.
Deliver(caller, result) ==
    /\ res' = [res EXCEPT ![caller] = result]
    /\ cur' = NoJob
    /\ wpc' = "idle"

\* The worker may start a job while the queue has not been asked to stop.
WorkerTakes(fn) ==
    /\ loop["worker"] = "run"
    /\ wpc = "idle"
    /\ jobs # <<>>
    /\ Head(jobs).fn = fn

\* ------------------------------------------------------ _clean_evicted
\* _clean_evicted as it would be without the early return of line 196-197.
CleanEvictedDecrNoGuard(c, ev) ==
    LET obs == ObsPointersOf(ev)
        r   == decr_ref_count(refcount, stored, obs, FALSE)
    IN  /\ refcount' = r.rc
        /\ stored' = r.st
        /\ cl' = [cl EXCEPT ![c] =
                    [phase |-> "mdel", ev |-> ev, zeros |-> r.zeros,
                     exps |-> ExpPointersOf(ev),
                     decr |-> <<[ptrs |-> obs, delete |-> FALSE,
                                 before |-> refcount, after |-> r.rc,
                                 removed |-> stored \ r.st]>>,
                     mdels |-> <<>>]]

\* _clean_evicted as it would be if it decremented every pointer twice.
CleanEvictedDecrTwice(c, ev) ==
    LET obs == ObsPointersOf(ev) \o ObsPointersOf(ev)
        r   == decr_ref_count(refcount, stored, obs, FALSE)
    IN  /\ refcount' = r.rc
        /\ stored' = r.st
        /\ cl' = [cl EXCEPT ![c] =
                    [phase |-> IF ev = <<>> THEN "done" ELSE "mdel",
                     ev |-> ev, zeros |-> r.zeros,
                     exps |-> ExpPointersOf(ev),
                     decr |-> <<>>, mdels |-> <<>>]]

\* Lines 196-212: nothing to do for an empty list; otherwise collect the
\* pointers and decrement the reference counts (one store round trip).
CleanEvictedDecr(c, ev) ==
    IF ev = <<>>
       THEN /\ cl' = [cl EXCEPT ![c] = [NoClean EXCEPT !.phase = "done"]]
            /\ UNCHANGED <<refcount, stored>>
       ELSE LET obs == ObsPointersOf(ev)
                r   == decr_ref_count(refcount, stored, obs, FALSE)
            IN  /\ refcount' = r.rc
                /\ stored' = r.st
                /\ cl' = [cl EXCEPT ![c] =
                            [phase |-> "mdel", ev |-> ev, zeros |-> r.zeros,
                             exps |-> ExpPointersOf(ev),
                             decr |-> <<[ptrs |-> obs, delete |-> FALSE,
                                         before |-> refcount, after |-> r.rc,
                                         removed |-> stored \ r.st]>>,
                             mdels |-> <<>>]]

\* The mass delete as it would be if it took every evicted observation
\* pointer, whatever its count.
CleanEvictedMdelAll(c) ==
    LET keys == ObsPointersOf(cl[c].ev) \o cl[c].exps
    IN  /\ stored' = mdel(stored, keys)
        /\ cl' = [cl EXCEPT ![c].phase = "done", ![c].mdels = Append(@, keys)]
        /\ UNCHANGED refcount

\* Line 215: one mass delete of the zero-count observation pointers and the
\* experience pointers (a second store round trip).
CleanEvictedMdel(c) ==
    LET keys == cl[c].zeros \o cl[c].exps
    IN  /\ stored' = mdel(stored, keys)
        /\ cl' = [cl EXCEPT ![c].phase = "done", ![c].mdels = Append(@, keys)]
        /\ UNCHANGED refcount

\* ----------------------------------------------------------------- insert
\* insert() as it would be without the job queue: the calling thread enters
\* _insert itself.
insert_unserialized(t, exp) ==
    /\ executing' = [executing EXCEPT ![t] = "_insert"]
    /\ pc' = [pc EXCEPT ![t] = "_insert"]
    /\ UNCHANGED <<jobs, res>>

\* insert(exp_dict), line 165: _insert is submitted as a job; the calling
\* thread itself runs no policy operation.
insert(t, exp) ==
    /\ process(t, "_insert", exp)
    /\ UNCHANGED executing

\* The ExpQueue enqueue loop: moves the next experience of the store's list
\* into the bounded ingest buffer, blocking while it is full.
IngestEnqueue ==
    /\ loop["enqueue"] = "run"
    /\ remote # <<>>
    /\ Len(expq) < ExpQueueMaxsize
    /\ expq' = Append(expq, Head(remote))
    /\ remote' = Tail(remote)
    /\ UNCHANGED <<storeV, produced, inbox, fetchq, consumed, memory, workV,
                   pc, res, cl, nSampled, lifeV, evictV, policy, gen>>

\* The ExpQueue dequeue loop: pops an experience and calls insert.
IngestDequeue ==
    /\ loop["ingest"] = "run"
    /\ pc["ingest"] = "idle"
    /\ expq # <<>>
    /\ insert("ingest", Head(expq))
    /\ expq' = Tail(expq)
    /\ UNCHANGED <<storeV, prodV, fetchq, consumed, memory, cur, wpc, sampled,
                   cl, nSampled, lifeV, evictV, policy, gen>>

\* Another thread calls insert() directly.
UserInsert ==
    /\ pc["user"] = "idle"
    /\ inbox # <<>>
    /\ insert("user", Head(inbox))
    /\ inbox' = Tail(inbox)
    /\ UNCHANGED <<storeV, produced, remote, bufV, memory, cur, wpc, sampled,
                   cl, nSampled, lifeV, evictV, policy, gen>>

\* The worker starts the insert job: _insert is entered.
InsertJobBegin ==
    /\ WorkerTakes("_insert")
    /\ cur' = Head(jobs)
    /\ jobs' = Tail(jobs)
    /\ wpc' = "_insert"
    /\ executing' = [executing EXCEPT !["worker"] = "_insert"]
    /\ UNCHANGED <<storeV, prodV, bufV, memory, sampled, pc, res, cl,
                   nSampled, lifeV, evictV, policy, gen>>

\* Replay._insert as it would be if it returned an empty list by default.
InsertJobDefaultsEmpty ==
    /\ wpc = "_insert"
    /\ "_insert" \notin policy
    /\ Deliver(cur.caller, [kind |-> "list", val |-> <<>>])
    /\ executing' = [executing EXCEPT !["worker"] = "none"]
    /\ UNCHANGED <<storeV, prodV, bufV, memory, jobs, sampled, pc, cl,
                   nSampled, lifeV, evictV, policy, gen>>

\* Lines 94-106: Replay._insert raises NotImplementedError; the job queue
\* hands the error to the caller of process().
InsertJobRaise ==
    /\ wpc = "_insert"
    /\ "_insert" \notin policy
    /\ Deliver(cur.caller, [kind |-> "err", err |-> "NotImplementedError"])
    /\ executing' = [executing EXCEPT !["worker"] = "none"]
    /\ UNCHANGED <<storeV, prodV, bufV, memory, jobs, sampled, pc, cl,
                   nSampled, lifeV, evictV, policy, gen>>

\* An overriding _insert returns the evicted list, which is the job's
\* result.
InsertJobEnd ==
    /\ wpc = "_insert"
    /\ "_insert" \in policy
    /\ LET r == PolicyInsert(memory, cur.arg)
       IN  /\ memory' = r.mem
           /\ Deliver(cur.caller, [kind |-> "list", val |-> r.evicted])
    /\ executing' = [executing EXCEPT !["worker"] = "none"]
    /\ UNCHANGED <<storeV, prodV, bufV, jobs, sampled, pc, cl, nSampled,
                   lifeV, evictV, policy, gen>>

\* insert(), lines 169-170: back in the calling thread, _clean_evicted
\* starts on the evicted list; an empty list ends the call.
InsertClean(t) ==
    /\ pc[t] = "wait"
    /\ res[t].kind = "list"
    /\ CleanEvictedDecr(t, res[t].val)
    /\ pc' = [pc EXCEPT ![t] = IF cl'[t].phase = "done" THEN "idle" ELSE "mdel"]
    /\ res' = [res EXCEPT ![t] = Pending]
    /\ UNCHANGED <<prodV, bufV, memory, workV, nSampled, lifeV, evictV, policy, gen>>

\* insert(): the mass delete of _clean_evicted, then the call returns.
InsertMdel(t) ==
    /\ pc[t] = "mdel"
    /\ CleanEvictedMdel(t)
    /\ pc' = [pc EXCEPT ![t] = "idle"]
    /\ UNCHANGED <<prodV, bufV, memory, workV, res, nSampled, lifeV, evictV, policy, gen>>

\* insert(): process() raised; the error leaves insert() without cleanup.
InsertRaise(t) ==
    /\ pc[t] = "wait"
    /\ res[t].kind = "err"
    /\ pc' = [pc EXCEPT ![t] = "idle"]
    /\ res' = [res EXCEPT ![t] = Pending]
    /\ UNCHANGED <<storeV, prodV, bufV, memory, workV, cl, nSampled, lifeV,
                   evictV, policy, gen>>

\* --------------------------------------------------------------- prefetch
\* _sample_before_fetch, line 193.
_sample_before_fetch(t) ==
    /\ process(t, "_wrapped_sample_before_fetch", NoArg)
    /\ UNCHANGED executing

\* The ObsFetchQueue enqueue loop asks for the next batch.
PrefetchSubmit ==
    /\ loop["prefetch"] = "run"
    /\ pc["prefetch"] = "idle"
    /\ nSampled < MaxSamples
    /\ _sample_before_fetch("prefetch")
    /\ UNCHANGED <<storeV, prodV, bufV, memory, cur, wpc, sampled, cl,
                   nSampled, lifeV, evictV, policy, gen>>

\* _wrapped_sample_before_fetch as it would be without the test of line
\* 178: _sample is entered whatever start_sample_condition says.
SampleJobBeginUnconditional ==
    /\ WorkerTakes("_wrapped_sample_before_fetch")
    /\ "start_sample_condition" \in policy
    /\ jobs' = Tail(jobs)
    /\ cur' = Head(jobs)
    /\ wpc' = "_sample"
    /\ executing' = [executing EXCEPT !["worker"] = "_sample"]
    /\ UNCHANGED <<storeV, prodV, bufV, memory, sampled, pc, res, cl,
                   nSampled, lifeV, evictV, policy, gen>>

\* _wrapped_sample_before_fetch, line 178: the job starts by asking
\* start_sample_condition; when it is not met the job returns None (line
\* 190), otherwise _sample is entered.
SampleJobBegin ==
    /\ WorkerTakes("_wrapped_sample_before_fetch")
    /\ "start_sample_condition" \in policy
    /\ jobs' = Tail(jobs)
    /\ IF start_sample_condition(memory)
          THEN /\ cur' = Head(jobs)
               /\ wpc' = "_sample"
               /\ executing' = [executing EXCEPT !["worker"] = "_sample"]
               /\ UNCHANGED res
          ELSE /\ Deliver(Head(jobs).caller, [kind |-> "none"])
               /\ UNCHANGED executing
    /\ UNCHANGED <<storeV, prodV, bufV, memory, sampled, pc, cl, nSampled,
                   lifeV, evictV, policy, gen>>

\* Lines 133-141 and 178: Replay.start_sample_condition raises
\* NotImplementedError, which ends the job.
SampleJobConditionRaise ==
    /\ WorkerTakes("_wrapped_sample_before_fetch")
    /\ "start_sample_condition" \notin policy
    /\ jobs' = Tail(jobs)
    /\ Deliver(Head(jobs).caller, [kind |-> "err", err |-> "NotImplementedError"])
    /\ UNCHANGED <<storeV, prodV, bufV, memory, sampled, executing, pc, cl,
                   nSampled, lifeV, evictV, policy, gen>>

\* Lines 108-121 and 179: Replay._sample raises NotImplementedError, which
\* ends the job.
SampleJobSampleRaise ==
    /\ wpc = "_sample"
    /\ "_sample" \notin policy
    /\ Deliver(cur.caller, [kind |-> "err", err |-> "NotImplementedError"])
    /\ executing' = [executing EXCEPT !["worker"] = "none"]
    /\ UNCHANGED <<storeV, prodV, bufV, memory, jobs, sampled, pc, cl,
                   nSampled, lifeV, evictV, policy, gen>>

\* Line 179: an overriding _sample returns something that is not a list.
SampleJobSampleOther ==
    /\ wpc = "_sample"
    /\ "_sample" \in policy
    /\ \E ty \in {"dict", "tuple", "NoneType"} : sampled' = [type |-> ty]
    /\ wpc' = "incr"
    /\ executing' = [executing EXCEPT !["worker"] = "none"]
    /\ UNCHANGED <<storeV, prodV, bufV, memory, jobs, cur, pc, res, cl,
                   nSampled, lifeV, evictV, policy, gen>>

\* Lines 179-180: an overriding _sample returns a list of stored
\* experiences.
SampleJobSample ==
    /\ wpc = "_sample"
    /\ "_sample" \in policy
    /\ \E b \in PolicySamples(memory) : sampled' = [type |-> "list", val |-> b]
    /\ wpc' = "incr"
    /\ executing' = [executing EXCEPT !["worker"] = "none"]
    /\ UNCHANGED <<storeV, prodV, bufV, memory, jobs, cur, pc, res, cl,
                   nSampled, lifeV, evictV, policy, gen>>

\* U.assert_type(value, list) passes for a list only.
assert_type(value, type) == value.type = type

\* _wrapped_sample_before_fetch as it would be without the check of line
\* 180: the value goes on to the caller like a batch without observations.
SampleJobAssertMissing ==
    /\ wpc = "incr"
    /\ ~assert_type(sampled, "list")
    /\ Deliver(cur.caller, [kind |-> "list", val |-> <<>>])
    /\ sampled' = NoSample
    /\ nSampled' = nSampled + 1
    /\ UNCHANGED <<storeV, prodV, bufV, memory, jobs, executing, pc, cl,
                   lifeV, evictV, policy, gen>>

\* Line 180: assert_type raises on a value that is not a list, which ends
\* the job before line 187.
SampleJobAssertRaise ==
    /\ wpc = "incr"
    /\ ~assert_type(sampled, "list")
    /\ Deliver(cur.caller, [kind |-> "err", err |-> "assert_type"])
    /\ sampled' = NoSample
    /\ UNCHANGED <<storeV, prodV, bufV, memory, jobs, executing, pc, cl,
                   nSampled, lifeV, evictV, policy, gen>>

\* Lines 180-188: the sampled value is a list; the reference counts of its
\* observation pointers are incremented and the job returns the list.
SampleJobIncr ==
    /\ wpc = "incr"
    /\ assert_type(sampled, "list")
    /\ refcount' = incr_ref_count(refcount, ObsPointersOf(sampled.val))
    /\ Deliver(cur.caller, [kind |-> "list", val |-> sampled.val])
    /\ sampled' = NoSample
    /\ nSampled' = nSampled + 1
    /\ UNCHANGED <<stored, prodV, bufV, memory, jobs, executing, pc, cl,
                   lifeV, evictV, policy, gen>>

\* The enqueue loop receives the job's result: None or an error is retried,
\* a batch is put into the bounded prefetch buffer (blocking while it is
\* full).
PrefetchResult ==
    /\ pc["prefetch"] = "wait"
    /\ \/ /\ res["prefetch"].kind \in {"none", "err"}
          /\ UNCHANGED fetchq
       \/ /\ res["prefetch"].kind = "list"
          /\ Len(fetchq) < ObsFetchQueueMaxsize
          /\ fetchq' = Append(fetchq, res["prefetch"].val)
    /\ pc' = [pc EXCEPT !["prefetch"] = "idle"]
    /\ res' = [res EXCEPT !["prefetch"] = Pending]
    /\ UNCHANGED <<storeV, prodV, expq, consumed, memory, workV, cl, nSampled,
                   lifeV, evictV, policy, gen>>

\* sample(), lines 258-260: pops one batch and aggregates it.
Sample ==
    /\ fetchq # <<>>
    /\ consumed' = Append(consumed, Head(fetchq))
    /\ fetchq' = Tail(fetchq)
    /\ UNCHANGED <<storeV, prodV, expq, memory, workV, pc, res, cl, nSampled,
                   lifeV, evictV, policy, gen>>

\* sample_iterator(stop_condition), line 262: the call creates the
\* generator; its body runs when the consumer asks for an element.  With
\* default set, no stop_condition was passed.
sample_iterator(default) ==
    /\ gen.pc = "none"
    /\ gen' = [NoGen EXCEPT !.pc = "suspended", !.default = default]
    /\ UNCHANGED <<storeV, prodV, bufV, memory, workV, pc, res, cl, nSampled,
                   lifeV, evictV, policy>>

\* The generator as it would be if it called sample() whatever
\* stop_condition() returned.
GenNextUnconditional ==
    /\ gen.pc = "suspended"
    /\ gen.trues + gen.falses < MaxIter
    /\ \E v \in (IF gen.default THEN {TRUE} ELSE BOOLEAN) :
          gen' = [gen EXCEPT !.pc = "sample",
                             !.trues = IF v THEN @ + 1 ELSE @,
                             !.falses = IF v THEN @ ELSE @ + 1,
                             !.calls = @ + 1]
    /\ UNCHANGED <<storeV, prodV, bufV, memory, workV, pc, res, cl, nSampled,
                   lifeV, evictV, policy>>

\* The consumer asks for the next element and the generator resumes: lines
\* 271-273 evaluate stop_condition() (always True when none was passed);
\* on True line 274 calls sample(), on False the generator ends.
GenNext ==
    /\ gen.pc = "suspended"
    /\ gen.trues + gen.falses < MaxIter
    /\ \E v \in (IF gen.default THEN {TRUE} ELSE BOOLEAN) :
          gen' = IF v THEN [gen EXCEPT !.pc = "sample", !.trues = @ + 1,
                                       !.calls = @ + 1]
                      ELSE [gen EXCEPT !.pc = "end", !.falses = @ + 1]
    /\ UNCHANGED <<storeV, prodV, bufV, memory, workV, pc, res, cl, nSampled,
                   lifeV, evictV, policy>>

\* Line 274: sample() pops a batch (blocking while the buffer is empty),
\* and the generator yields it and is suspended.
GenYield ==
    /\ gen.pc = "sample"
    /\ fetchq # <<>>
    /\ consumed' = Append(consumed, Head(fetchq))
    /\ fetchq' = Tail(fetchq)
    /\ gen' = [gen EXCEPT !.pc = "suspended", !.yields = @ + 1]
    /\ UNCHANGED <<storeV, prodV, expq, memory, workV, pc, res, cl, nSampled,
                   lifeV, evictV, policy>>

\* ------------------------------------------------------------------ evict
\* evict(), line 223: _wrapped_evict is submitted as a job.
evict(t) ==
    /\ process(t, "_wrapped_evict", NoArg)
    /\ UNCHANGED executing

\* A thread calls evict().
EvictCall ==
    /\ pc["evictor"] = "idle"
    /\ evict("evictor")
    /\ UNCHANGED <<storeV, prodV, bufV, memory, cur, wpc, sampled, cl,
                   nSampled, lifeV, evictV, policy, gen>>

\* The worker starts the evict job: _evict is entered (line 218).
EvictJobBegin ==
    /\ WorkerTakes("_wrapped_evict")
    /\ cur' = Head(jobs)
    /\ jobs' = Tail(jobs)
    /\ wpc' = "_evict"
    /\ executing' = [executing EXCEPT !["worker"] = "_evict"]
    /\ UNCHANGED <<storeV, prodV, bufV, memory, sampled, pc, res, cl,
                   nSampled, lifeV, evictV, policy, gen>>

\* _wrapped_evict as it would be if the job returned the evicted list
\* straight from _evict, leaving the cleanup to be done after the job.
EvictJobEvictReturns ==
    /\ wpc = "_evict"
    /\ \E n \in (IF "_evict" \in policy THEN 0..Len(memory) ELSE {0}) :
          LET r == PolicyEvict(memory, n)
          IN  /\ memory' = r.mem
              /\ cl' = [cl EXCEPT !["worker"] =
                          [NoClean EXCEPT !.phase = "decr", !.ev = r.evicted]]
              /\ Deliver(cur.caller, [kind |-> "list", val |-> r.evicted])
    /\ executing' = [executing EXCEPT !["worker"] = "none"]
    /\ UNCHANGED <<storeV, prodV, bufV, jobs, sampled, pc, nSampled,
                   lifeV, evictV, policy, gen>>

\* _evict returns the experiences it evicted; Replay._evict itself returns
\* [] (line 131).
EvictJobEvict ==
    /\ wpc = "_evict"
    /\ \E n \in (IF "_evict" \in policy THEN 0..Len(memory) ELSE {0}) :
          LET r == PolicyEvict(memory, n)
          IN  /\ memory' = r.mem
              /\ cl' = [cl EXCEPT !["worker"] =
                          [NoClean EXCEPT !.phase = "decr", !.ev = r.evicted]]
    /\ wpc' = "clean"
    /\ executing' = [executing EXCEPT !["worker"] = "none"]
    /\ UNCHANGED <<storeV, prodV, bufV, jobs, cur, sampled, pc, res, nSampled,
                   lifeV, evictV, policy, gen>>

\* _wrapped_evict, line 219: _clean_evicted runs inside the job; an empty
\* list ends the job.
EvictJobClean ==
    /\ wpc = "clean"
    /\ CleanEvictedDecr("worker", cl["worker"].ev)
    /\ IF cl'["worker"].phase = "done"
          THEN Deliver(cur.caller, [kind |-> "list", val |-> cl["worker"].ev])
          ELSE wpc' = "mdel" /\ UNCHANGED <<cur, res>>
    /\ UNCHANGED <<prodV, bufV, memory, jobs, sampled, executing, pc,
                   nSampled, lifeV, evictV, policy, gen>>

\* _wrapped_evict: the mass delete of _clean_evicted, then the job returns
\* the evicted list (line 220).
EvictJobMdel ==
    /\ wpc = "mdel"
    /\ CleanEvictedMdel("worker")
    /\ Deliver(cur.caller, [kind |-> "list", val |-> cl["worker"].ev])
    /\ UNCHANGED <<prodV, bufV, memory, jobs, sampled, executing, pc,
                   nSampled, lifeV, evictV, policy, gen>>

\* A store round trip of the job's cleanup fails (a store or network
\* failure): the job raises, and the worker reports the error to the
\* job's caller.
EvictJobFail ==
    /\ wpc \in {"clean", "mdel"}
    /\ cl["worker"].ev # <<>>
    /\ cl' = [cl EXCEPT !["worker"].phase = "failed"]
    /\ Deliver(cur.caller, [kind |-> "err", err |-> "store"])
    /\ UNCHANGED <<storeV, prodV, bufV, memory, jobs, sampled, executing, pc,
                   nSampled, lifeV, evictV, policy, gen>>

\* evict() returns the evicted list to its caller, or raises.
EvictReturn ==
    /\ pc["evictor"] = "wait"
    /\ res["evictor"].kind \in {"list", "err"}
    /\ pc' = [pc EXCEPT !["evictor"] = "idle"]
    /\ res' = [res EXCEPT !["evictor"] = Pending]
    /\ UNCHANGED <<storeV, prodV, bufV, memory, workV, cl, nSampled, lifeV,
                   evictV, policy, gen>>

\* ------------------------------------------------------- eviction thread
\* _EvictThread.run as it would be without the test of lines 36-37.
EvictThreadCheckMissing(t) ==
    /\ pc[t] = "check"
    /\ pc' = [pc EXCEPT ![t] = "call"]
    /\ UNCHANGED <<storeV, prodV, bufV, memory, workV, res, cl, nSampled,
                   lifeV, evictV, policy, gen>>

\* _EvictThread.run, lines 35-37: the stop flag is checked at the start of
\* each iteration.
EvictThreadCheck(t) ==
    /\ pc[t] = "check"
    /\ pc' = [pc EXCEPT ![t] = IF t \in stopped THEN "done" ELSE "call"]
    /\ UNCHANGED <<storeV, prodV, bufV, memory, workV, res, cl, nSampled,
                   lifeV, evictV, policy, gen>>

\* Line 38: the thread calls evict.
EvictThreadCall(t) ==
    /\ pc[t] = "call"
    /\ evict(t)
    /\ UNCHANGED <<storeV, prodV, bufV, memory, cur, wpc, sampled, cl,
                   nSampled, lifeV, evictV, policy, gen>>

\* Lines 38-39: evict returns and the thread sleeps; an error raised by
\* evict is not caught in run, so it ends the thread.
EvictThreadReturn(t) ==
    /\ pc[t] = "wait"
    /\ res[t].kind \in {"list", "err"}
    /\ pc' = [pc EXCEPT ![t] = IF res[t].kind = "err" THEN "dead" ELSE "sleep"]
    /\ res' = [res EXCEPT ![t] = Pending]
    /\ UNCHANGED <<storeV, prodV, bufV, memory, workV, cl, nSampled, lifeV,
                   evictV, policy, gen>>

\* Line 39: the sleep ends and the next iteration starts.
EvictThreadWake(t) ==
    /\ pc[t] = "sleep"
    /\ pc' = [pc EXCEPT ![t] = "check"]
    /\ UNCHANGED <<storeV, prodV, bufV, memory, workV, res, cl, nSampled,
                   lifeV, evictV, policy, gen>>

\* The threads created so far.
Created == {k \in 1..Len(EvictThreads) : pc[EvictThreads[k]] # "new"}

\* start_evict_thread as it would be without the check of line 241.
start_evict_thread_unchecked ==
    /\ api.n < MaxCalls
    /\ Cardinality(Created) < Len(EvictThreads)
    /\ LET t == EvictThreads[Cardinality(Created) + 1]
       IN  /\ evict_thread' = t
           /\ pc' = [pc EXCEPT ![t] = "check"]
    /\ api' = [n |-> api.n + 1, call |-> "start", had |-> evict_thread # "none",
               outcome |-> "ok"]
    /\ UNCHANGED <<storeV, prodV, bufV, memory, workV, res, cl, nSampled,
                   lifeV, stopped, policy, gen>>

\* start_evict_thread, lines 240-250.
start_evict_thread ==
    /\ api.n < MaxCalls
    /\ IF evict_thread # "none"
          THEN /\ api' = [n |-> api.n + 1, call |-> "start", had |-> TRUE,
                          outcome |-> "RuntimeError"]
               /\ UNCHANGED <<evict_thread, pc>>
          ELSE /\ Cardinality(Created) < Len(EvictThreads)
               /\ LET t == EvictThreads[Cardinality(Created) + 1]
                  IN  /\ evict_thread' = t
                      /\ pc' = [pc EXCEPT ![t] = "check"]
               /\ api' = [n |-> api.n + 1, call |-> "start", had |-> FALSE,
                          outcome |-> "ok"]
    /\ UNCHANGED <<storeV, prodV, bufV, memory, workV, res, cl, nSampled,
                   lifeV, stopped, policy, gen>>

\* stop_evict_thread, lines 252-256: with no thread, t is None and t.stop()
\* raises AttributeError before anything is assigned.
stop_evict_thread ==
    /\ api.n < MaxCalls
    /\ IF evict_thread = "none"
          THEN /\ api' = [n |-> api.n + 1, call |-> "stop", had |-> FALSE,
                          outcome |-> "AttributeError"]
               /\ UNCHANGED <<evict_thread, stopped>>
          ELSE /\ stopped' = stopped \cup {evict_thread}
               /\ evict_thread' = "none"
               /\ api' = [n |-> api.n + 1, call |-> "stop", had |-> TRUE,
                          outcome |-> "ok"]
    /\ UNCHANGED <<storeV, prodV, bufV, memory, workV, pc, res, cl, nSampled,
                   lifeV, policy, gen>>

\* ----------------------------------------------------- stop_queue_threads
\* A stop request sets the loop's stop flag.
Stop(l) == [loop EXCEPT ![l] = IF @ = "run" THEN "stop" ELSE @]

\* Line 235: self._job_queue.stop_thread()
StopJobQueue ==
    /\ mainpc = "idle"
    /\ loop' = Stop("worker")
    /\ mainpc' = "235"
    /\ UNCHANGED <<storeV, prodV, bufV, memory, workV, pc, res, cl, nSampled,
                   evictV, policy, gen>>

\* Line 236: self._exp_queue.stop_enqueue_thread()
StopExpEnqueue ==
    /\ mainpc = "235"
    /\ loop' = Stop("enqueue")
    /\ mainpc' = "236"
    /\ UNCHANGED <<storeV, prodV, bufV, memory, workV, pc, res, cl, nSampled,
                   evictV, policy, gen>>

\* Line 237: self._exp_queue.stop_dequeue_thread()
StopExpDequeue ==
    /\ mainpc = "236"
    /\ loop' = Stop("ingest")
    /\ mainpc' = "237"
    /\ UNCHANGED <<storeV, prodV, bufV, memory, workV, pc, res, cl, nSampled,
                   evictV, policy, gen>>

\* stop_queue_threads as it would be without line 238.
StopFetchEnqueueMissing ==
    /\ mainpc = "237"
    /\ mainpc' = "done"
    /\ UNCHANGED <<storeV, prodV, bufV, memory, workV, pc, res, cl, nSampled,
                   loop, evictV, policy, gen>>

\* Line 238: self._obs_fetch_queue.stop_enqueue_thread()
StopFetchEnqueue ==
    /\ mainpc = "237"
    /\ loop' = Stop("prefetch")
    /\ mainpc' = "done"
    /\ UNCHANGED <<storeV, prodV, bufV, memory, workV, pc, res, cl, nSampled,
                   evictV, policy, gen>>

\* The job worker, asked to stop, finishes the job in flight and ends; the
\* jobs still queued fail with a shutdown error.
WorkerExit ==
    /\ loop["worker"] = "stop"
    /\ wpc = "idle"
    /\ res' = [t \in Callers |->
                 IF \E k \in 1..Len(jobs) : jobs[k].caller = t
                    THEN [kind |-> "err", err |-> "shutdown"] ELSE res[t]]
    /\ jobs' = <<>>
    /\ loop' = [loop EXCEPT !["worker"] = "done"]
    /\ UNCHANGED <<storeV, prodV, bufV, memory, cur, wpc, sampled, executing,
                   pc, cl, nSampled, mainpc, evictV, policy, gen>>

\* The ingest enqueue loop sees its stop flag and ends.
EnqueueExit ==
    /\ loop["enqueue"] = "stop"
    /\ loop' = [loop EXCEPT !["enqueue"] = "done"]
    /\ UNCHANGED <<storeV, prodV, bufV, memory, workV, pc, res, cl, nSampled,
                   mainpc, evictV, policy, gen>>

\* The ingest dequeue loop sees its stop flag between two inserts and ends.
IngestExit ==
    /\ loop["ingest"] = "stop"
    /\ pc["ingest"] = "idle"
    /\ loop' = [loop EXCEPT !["ingest"] = "done"]
    /\ UNCHANGED <<storeV, prodV, bufV, memory, workV, pc, res, cl, nSampled,
                   mainpc, evictV, policy, gen>>

\* The prefetch enqueue loop sees its stop flag between two jobs, or while
\* it is blocked putting a batch into the full buffer, and ends.
PrefetchExit ==
    /\ loop["prefetch"] = "stop"
    /\ \/ pc["prefetch"] = "idle"
       \/ /\ pc["prefetch"] = "wait"
          /\ res["prefetch"].kind = "list"
          /\ Len(fetchq) >= ObsFetchQueueMaxsize
    /\ loop' = [loop EXCEPT !["prefetch"] = "done"]
    /\ UNCHANGED <<storeV, prodV, bufV, memory, workV, pc, res, cl, nSampled,
                   mainpc, evictV, policy, gen>>

\* ---------------------------------------------------------- specifications
\* The engine at work: producers, both pipelines, callers of insert() and
\* evict(), the consumer.
Next ==
    \/ \E direct \in BOOLEAN : Produce(direct)
    \/ IngestEnqueue
    \/ IngestDequeue
    \/ UserInsert
    \/ InsertJobBegin
    \/ InsertJobEnd
    \/ \E t \in Inserters : InsertClean(t)
    \/ \E t \in Inserters : InsertMdel(t)
    \/ PrefetchSubmit
    \/ SampleJobBegin
    \/ SampleJobSample
    \/ SampleJobIncr
    \/ PrefetchResult
    \/ Sample
    \/ EvictCall
    \/ EvictJobBegin
    \/ EvictJobEvict
    \/ EvictJobClean
    \/ EvictJobMdel
    \/ EvictReturn

Spec == Init /\ [][Next]_vars

\* The engine over any policy: Replay itself, whose _insert, _sample and
\* start_sample_condition raise NotImplementedError and whose _evict
\* returns [], or a subclass overriding any of them, whose _sample may
\* return something that is not a list.
NextPolicy ==
    \/ Produce(FALSE)
    \/ IngestEnqueue
    \/ IngestDequeue
    \/ InsertJobBegin
    \/ InsertJobRaise
    \/ InsertJobEnd
    \/ InsertClean("ingest")
    \/ InsertMdel("ingest")
    \/ InsertRaise("ingest")
    \/ PrefetchSubmit
    \/ SampleJobBegin
    \/ SampleJobConditionRaise
    \/ SampleJobSampleRaise
    \/ SampleJobSampleOther
    \/ SampleJobSample
    \/ SampleJobAssertRaise
    \/ SampleJobIncr
    \/ PrefetchResult
    \/ Sample
    \/ EvictCall
    \/ EvictJobBegin
    \/ EvictJobEvict
    \/ EvictJobClean
    \/ EvictJobMdel
    \/ EvictReturn

SpecPolicy == InitPolicy /\ [][NextPolicy]_vars

\* A consumer draws its batches from sample_iterator() while experiences
\* are ingested and batches prefetched.
NextIter ==
    \/ Produce(FALSE)
    \/ IngestEnqueue
    \/ IngestDequeue
    \/ InsertJobBegin
    \/ InsertJobEnd
    \/ InsertClean("ingest")
    \/ InsertMdel("ingest")
    \/ PrefetchSubmit
    \/ SampleJobBegin
    \/ SampleJobSample
    \/ SampleJobIncr
    \/ PrefetchResult
    \/ \E default \in BOOLEAN : sample_iterator(default)
    \/ GenNext
    \/ GenYield

SpecIter == Init /\ [][NextIter]_vars

\* The eviction thread's life cycle: start_evict_thread and
\* stop_evict_thread called in any order while experiences are ingested,
\* with store failures during the evict job's cleanup.
NextEvict ==
    \/ Produce(FALSE)
    \/ IngestEnqueue
    \/ IngestDequeue
    \/ InsertJobBegin
    \/ InsertJobEnd
    \/ InsertClean("ingest")
    \/ InsertMdel("ingest")
    \/ EvictJobBegin
    \/ EvictJobEvict
    \/ EvictJobClean
    \/ EvictJobMdel
    \/ EvictJobFail
    \/ start_evict_thread
    \/ stop_evict_thread
    \/ \E k \in 1..Len(EvictThreads) : EvictThreadCheck(EvictThreads[k])
    \/ \E k \in 1..Len(EvictThreads) : EvictThreadCall(EvictThreads[k])
    \/ \E k \in 1..Len(EvictThreads) : EvictThreadReturn(EvictThreads[k])
    \/ \E k \in 1..Len(EvictThreads) : EvictThreadWake(EvictThreads[k])

SpecEvict == Init /\ [][NextEvict]_vars

\* The steps of the eviction thread t and of the job worker.
EvictThreadRun(t) ==
    \/ EvictThreadCheck(t)
    \/ EvictThreadCall(t)
    \/ EvictThreadReturn(t)
    \/ EvictThreadWake(t)

JobWorker ==
    \/ InsertJobBegin
    \/ InsertJobEnd
    \/ EvictJobBegin
    \/ EvictJobEvict
    \/ EvictJobClean
    \/ EvictJobMdel
    \/ EvictJobFail

\* The eviction thread's life cycle with every eviction thread and the job
\* worker scheduled: a thread that can take a step eventually takes one.
SpecSched ==
    /\ Init
    /\ [][NextEvict]_vars
    /\ WF_vars(JobWorker)
    /\ \A k \in 1..Len(EvictThreads) : WF_vars(EvictThreadRun(EvictThreads[k]))

\* stop_queue_threads called at any moment while experiences are ingested
\* and batches prefetched; nothing drains the prefetch buffer.
NextStop ==
    \/ Produce(FALSE)
    \/ IngestEnqueue
    \/ IngestDequeue
    \/ InsertJobBegin
    \/ InsertJobEnd
    \/ InsertClean("ingest")
    \/ InsertMdel("ingest")
    \/ InsertRaise("ingest")
    \/ PrefetchSubmit
    \/ SampleJobBegin
    \/ SampleJobSample
    \/ SampleJobIncr
    \/ PrefetchResult
    \/ StopJobQueue
    \/ StopExpEnqueue
    \/ StopExpDequeue
    \/ StopFetchEnqueue
    \/ WorkerExit
    \/ EnqueueExit
    \/ IngestExit
    \/ PrefetchExit

\* The steps of each thread; every thread that can run is scheduled.
MainThread     == StopExpEnqueue \/ StopExpDequeue \/ StopFetchEnqueue
WorkerThread   == InsertJobBegin \/ InsertJobEnd \/ SampleJobBegin
                  \/ SampleJobSample \/ SampleJobIncr \/ WorkerExit
EnqueueThread  == IngestEnqueue \/ EnqueueExit
IngestThread   == IngestDequeue \/ InsertClean("ingest") \/ InsertMdel("ingest")
                  \/ InsertRaise("ingest") \/ IngestExit
PrefetchThread == PrefetchSubmit \/ PrefetchResult \/ PrefetchExit

SpecStop ==
    /\ Init
    /\ [][NextStop]_vars
    /\ WF_vars(MainThread)
    /\ WF_vars(WorkerThread)
    /\ WF_vars(EnqueueThread)
    /\ WF_vars(IngestThread)
    /\ WF_vars(PrefetchThread)

\* ------------------------------------------------------------------ claims
InPolicy == {t \in Threads : executing[t] # "none"}

C2_DeletedOnlyAtZero ==
    [][\A p \in ObsPointers :
          (p \in stored /\ p \notin stored') => refcount[p] = 0]_vars

RECURSIVE BatchPointers(_)
\* The observation pointers of a sequence of batches.
BatchPointers(batches) ==
    IF batches = <<>> THEN {}
    ELSE Range(ObsPointersOf(Head(batches))) \cup BatchPointers(Tail(batches))

\* The observation pointers of the batches in the prefetch buffer or handed
\* to the consumer.
InFlight == BatchPointers(fetchq) \cup BatchPointers(consumed)

\* C3: no observation pointer of a batch that sits in the prefetch buffer
\* or has been handed to a consumer is removed from the store by a cleanup.
C3_InFlightNeverDeleted ==
    [][\A p \in InFlight : p \in stored => p \in stored']_vars

\* The k-th smallest element of a set of numbers.
Kth(I, k) == CHOOSE i \in I : Cardinality({j \in I : j < i}) = k - 1

\* The subsequence of s at the positions I, in order.
AtPositions(s, I) == [k \in 1..Cardinality(I) |-> s[Kth(I, k)]]

\* How often pointer p occurs among the obs_pointers of the list.
Occurrences(p, ev) ==
    Cardinality({ki \in (1..Len(ev)) \X (1..Cardinality(ObsPointers)) :
                    /\ "obs_pointers" \in DOMAIN ev[ki[1]]
                    /\ ki[2] <= Len(ev[ki[1]].obs_pointers)
                    /\ ev[ki[1]].obs_pointers[ki[2]] = p})

\* What a finished cleanup of a non-empty list has done, the decrement
\* having been called with the given delete flag: one decrement that took
\* 1 off each pointer per occurrence, then one mass delete of the pointers
\* whose count reached 0 followed by the experience pointers; an evicted
\* list of one experience with obs_pointers = [p] and count 1 leaves the
\* count at 0 and p in the mass delete.
CleanupContract(delete) ==
    \A c \in Cleaners :
       (cl[c].phase = "done" /\ cl[c].ev # <<>>) =>
          /\ Len(cl[c].decr) = 1
          /\ Len(cl[c].mdels) = 1
          /\ LET ev    == cl[c].ev
                 d     == cl[c].decr[1]
                 zeroI == {k \in 1..Len(d.ptrs) :
                             d.before[d.ptrs[k]]
                               - Cardinality({j \in 1..k : d.ptrs[j] = d.ptrs[k]})
                             = 0}
                 expI  == {k \in 1..Len(ev) : "exp_pointer" \in DOMAIN ev[k]}
             IN  /\ d.delete = delete
                 /\ \A p \in ObsPointers :
                       /\ d.after[p] = d.before[p] - Occurrences(p, ev)
                       /\ Occurrences(p, ev)
                            = Cardinality({k \in 1..Len(d.ptrs) : d.ptrs[k] = p})
                 /\ cl[c].mdels[1]
                      = AtPositions(d.ptrs, zeroI)
                        \o [k \in 1..Cardinality(expI) |->
                              ev[Kth(expI, k)].exp_pointer]
                 /\ \A p \in ObsPointers :
                       (/\ Len(ev) = 1
                        /\ "obs_pointers" \in DOMAIN ev[1]
                        /\ ev[1].obs_pointers = <<p>>
                        /\ d.before[p] = 1)
                       => (d.after[p] = 0 /\ p \in Range(cl[c].mdels[1]))

C5_EmptyIsNoOp ==
    [][\A c \in Cleaners :
          (cl'[c] # cl[c] /\ cl'[c].ev = <<>> /\ cl'[c].phase # "decr") =>
             /\ cl'[c].phase = "done"
             /\ cl'[c].decr = <<>>
             /\ cl'[c].mdels = <<>>
             /\ refcount' = refcount
             /\ stored' = stored]_vars

\* C5 witness: insert() within capacity and the default evict() have both
\* finished a cleanup of an empty list, with pointers counted in the store.
C5_Witness ==
    /\ cl["ingest"].phase = "done" /\ cl["ingest"].ev = <<>>
    /\ cl["worker"].phase = "done" /\ cl["worker"].ev = <<>>
    /\ pc["ingest"] = "idle"
    /\ refcount[1] > 0

\* C6: stop_evict_thread() with no eviction thread active fails with an
\* explicit invalid-state error.
C6_StopWithoutThread ==
    (api.call = "stop" /\ ~api.had) => api.outcome = "InvalidStateError"

\* C7: start_evict_thread() while a thread started earlier has not been
\* stopped fails with the already-running error, creates and starts no
\* thread, and leaves the handle and every thread as they were.
C7_DoubleStart ==
    [][(api'.n # api.n /\ api'.call = "start" /\ evict_thread # "none") =>
          /\ api'.outcome = "RuntimeError"
          /\ evict_thread' = evict_thread
          /\ pc' = pc
          /\ stopped' = stopped]_vars

\* C7 witness: a start_evict_thread() call has failed while the thread
\* started earlier is waiting for its evict job.
C7_Witness ==
    /\ api.call = "start"
    /\ api.outcome = "RuntimeError"
    /\ evict_thread = "evict1"
    /\ pc["evict1"] = "wait"

\* An eviction thread that can still submit an Evict job: it is about to
\* call evict, or it is in its loop with its stop flag not set.
AbleToSubmit(t) ==
    \/ pc[t] = "call"
    \/ pc[t] \in {"check", "wait", "sleep"} /\ t \notin stopped

\* C8: at most one eviction thread is running (able to submit an Evict
\* job) at any instant.
C8_OneScheduler ==
    Cardinality({t \in Range(EvictThreads) : AbleToSubmit(t)}) <= 1

\* C9: once stop_queue_threads() has been called, every background loop
\* eventually terminates.
C9_StopTerminates ==
    (mainpc # "idle") ~> (\A l \in Loops : loop[l] = "done")

\* C9 witness: every loop has ended although, when the job queue was
\* stopped, the prefetch loop was blocked on the full buffer and the insert
\* of the last experience was rejected.
C9_Witness ==
    /\ \A l \in Loops : loop[l] = "done"
    /\ pc["prefetch"] = "wait"
    /\ res["prefetch"].kind = "list"
    /\ Len(fetchq) = fetch_queue_size
    /\ produced = NumRecords /\ remote = <<>> /\ expq = <<>>
    /\ pc["ingest"] = "idle"
    /\ (memory = <<>> \/ memory[Len(memory)].id # NumRecords)

\* C10: an eviction thread ends only when it has been stopped: an error of
\* an Evict job does not end its loop.
C10_SurvivesErrors ==
    \A t \in Range(EvictThreads) : pc[t] \in {"done", "dead"} => t \in stopped

NotImplemented == [kind |-> "err", err |-> "NotImplementedError"]

\* C11: on a policy that does not implement them, _insert, _sample and
\* start_sample_condition raise NotImplementedError when called; the error
\* is what the caller of insert() or of the sample submission receives, and
\* it leaves without cleanup, reference-count change or batch; the default
\* _evict returns [], so that evict() returns [] and issues no store call.
C11_NotImplemented ==
    [][/\ \A t \in Callers :
             (res'[t] # res[t] /\ res'[t].kind = "err") =>
                (refcount' = refcount /\ stored' = stored /\ cl' = cl)
       /\ (wpc = "_insert" /\ "_insert" \notin policy /\ wpc' # wpc) =>
             (res'[cur.caller] = NotImplemented /\ memory' = memory)
       /\ (wpc = "_sample" /\ "_sample" \notin policy /\ wpc' # wpc) =>
             (res'[cur.caller] = NotImplemented /\ wpc' = "idle")
       /\ (/\ jobs # <<>>
           /\ jobs' = Tail(jobs)
           /\ Head(jobs).fn = "_wrapped_sample_before_fetch"
           /\ "start_sample_condition" \notin policy) =>
             (/\ res'[Head(jobs).caller] = NotImplemented
              /\ wpc' = "idle"
              /\ executing' = executing)
       /\ \A t \in Inserters \cup {"prefetch"} :
             (pc[t] = "wait" /\ res[t] = NotImplemented /\ pc'[t] # pc[t]) =>
                (/\ pc'[t] = "idle"
                 /\ cl' = cl /\ refcount' = refcount /\ stored' = stored
                 /\ fetchq' = fetchq)
       /\ "_evict" \notin policy =>
             /\ cl'["worker"].decr = <<>> /\ cl'["worker"].mdels = <<>>
             /\ (wpc \in {"_evict", "clean", "mdel"} /\ wpc' # wpc) =>
                   (refcount' = refcount /\ stored' = stored /\ memory' = memory)
             /\ (wpc = "clean" /\ wpc' # wpc) =>
                   (wpc' = "idle" /\ res'[cur.caller] = [kind |-> "list", val |-> <<>>])
      ]_vars

\* C11 witness: on Replay itself, with observations counted in the store,
\* the ingest loop's insert() and the prefetch submission have both
\* received NotImplementedError and evict() has received [].
C11_Witness ==
    /\ policy = {}
    /\ res["ingest"] = NotImplemented
    /\ res["prefetch"] = NotImplemented
    /\ res["evictor"] = [kind |-> "list", val |-> <<>>]
    /\ cl = [c \in Cleaners |-> IF c = "worker" THEN [NoClean EXCEPT !.phase = "done"]
                                                 ELSE NoClean]
    /\ refcount[1] > 0

\* C12: when _sample returns a value that is not a list, the sample job
\* raises the assert_type error to its submitter; no step of that job
\* changes a reference count or the prefetch buffer, the submitter pushes
\* nothing on receiving the error, and the buffer holds only batches of
\* batch_size experiences.
C12_NonListFailsFast ==
    [][/\ (/\ wpc \in {"_sample", "incr"}
           /\ wpc' # wpc
           /\ ~assert_type(IF wpc = "incr" THEN sampled ELSE sampled', "list")) =>
             (refcount' = refcount /\ stored' = stored /\ fetchq' = fetchq)
       /\ (wpc = "incr" /\ wpc' # wpc /\ ~assert_type(sampled, "list")) =>
             (/\ res'[cur.caller] = [kind |-> "err", err |-> "assert_type"]
              /\ wpc' = "idle")
       /\ (/\ pc["prefetch"] = "wait"
           /\ res["prefetch"].kind = "err"
           /\ pc'["prefetch"] # "wait") => fetchq' = fetchq
       /\ \A k \in 1..Len(fetchq') : Len(fetchq'[k]) = batch_size
      ]_vars

\* C12 witness: the prefetch loop has received the assert_type error of a
\* job whose _sample returned a non-list, while an earlier batch sits in the
\* prefetch buffer with its observation reserved.
C12_Witness ==
    /\ res["prefetch"] = [kind |-> "err", err |-> "assert_type"]
    /\ fetchq # <<>>
    /\ refcount[1] >= 2

\* C13: a sample job that finds start_sample_condition false does not call
\* _sample, increments no reference count and returns None, for which the
\* prefetch loop adds nothing to the buffer; _sample runs, and a batch is
\* returned and enters the buffer, only in a job that found it true.
C13_ConditionFalse ==
    [][/\ (/\ jobs # <<>>
           /\ jobs' = Tail(jobs)
           /\ Head(jobs).fn = "_wrapped_sample_before_fetch"
           /\ "start_sample_condition" \in policy
           /\ ~start_sample_condition(memory)) =>
             (/\ res'[Head(jobs).caller] = [kind |-> "none"]
              /\ wpc' = "idle"
              /\ executing' = executing
              /\ sampled' = sampled
              /\ refcount' = refcount
              /\ fetchq' = fetchq)
       /\ (/\ pc["prefetch"] = "wait"
           /\ res["prefetch"].kind = "none"
           /\ pc'["prefetch"] # "wait") => fetchq' = fetchq
       /\ wpc' \in {"_sample", "incr"} =>
             ("start_sample_condition" \in policy /\ start_sample_condition(memory'))
       /\ (res'["prefetch"].kind = "list" /\ res["prefetch"].kind # "list") =>
             (wpc = "incr" /\ start_sample_condition(memory))
       /\ Len(fetchq') > Len(fetchq) =>
             (/\ res["prefetch"].kind = "list"
              /\ fetchq' = Append(fetchq, res["prefetch"].val))
      ]_vars

\* C13 witness: with a batch of an earlier job in the buffer and the
\* policy emptied by an eviction, a sample job has returned None.
C13_Witness ==
    /\ res["prefetch"] = [kind |-> "none"]
    /\ memory = <<>>
    /\ fetchq # <<>>
    /\ refcount[1] > 0

\* C14: the generator of sample_iterator evaluates stop_condition() before
\* each sample() call, calls sample() once and yields its result once for
\* each evaluation that returned true, and ends at the first evaluation
\* that returned false without another sample() call; when no
\* stop_condition was passed it never ends.
C14_SampleIterator ==
    /\ gen.calls = gen.trues
    /\ gen.yields = Len(consumed)
    /\ gen.pc = "none" => (gen.trues = 0 /\ gen.falses = 0)
    /\ gen.pc = "suspended" => (gen.yields = gen.trues /\ gen.falses = 0)
    /\ gen.pc = "sample" => (gen.yields = gen.trues - 1 /\ gen.falses = 0)
    /\ gen.pc = "end" => (gen.yields = gen.trues /\ gen.falses = 1)
    /\ gen.default => (gen.pc # "end" /\ gen.falses = 0)

\* C14 witness: the generator has ended on the first false evaluation
\* after two true ones, having yielded two batches.
C14_Witness ==
    /\ gen.pc = "end"
    /\ ~gen.default
    /\ gen.trues = 2
    /\ Len(consumed) = 2

\* C15: the ingest buffer never holds more than exp_queue_size experiences
\* and the prefetch buffer never more than fetch_queue_size batches; a
\* buffer changes only by its producer appending the element it holds or by
\* its consumer taking the head, so nothing is dropped; while a buffer is
\* full its producer keeps the element it could not put (the store's list,
\* the job's result) until the head has been taken.
C15_BoundedBuffers ==
    [][/\ Len(expq') <= exp_queue_size
       /\ Len(fetchq') <= fetch_queue_size
       /\ expq' # expq =>
             \/ (/\ remote # <<>>
                 /\ expq' = Append(expq, Head(remote))
                 /\ remote' = Tail(remote))
             \/ (/\ expq # <<>>
                 /\ expq' = Tail(expq)
                 /\ jobs' = Append(jobs, [caller |-> "ingest", fn |-> "_insert",
                                          arg |-> Head(expq)]))
       /\ fetchq' # fetchq =>
             \/ (/\ res["prefetch"].kind = "list"
                 /\ fetchq' = Append(fetchq, res["prefetch"].val))
             \/ (/\ fetchq # <<>>
                 /\ fetchq' = Tail(fetchq)
                 /\ consumed' = Append(consumed, Head(fetchq)))
       /\ Len(expq) = exp_queue_size =>
             (expq' = expq => \E k \in 0..1 : SubSeq(remote', 1, Len(remote') - k) = remote)
       /\ (Len(fetchq) = fetch_queue_size /\ res["prefetch"].kind = "list") =>
             (fetchq' = fetchq => res'["prefetch"] = res["prefetch"])
      ]_vars

\* C15 witness (scenario B on both buffers): each buffer is full and its
\* producer holds a further element that it cannot put.
C15_Witness ==
    /\ Len(expq) = exp_queue_size
    /\ remote # <<>>
    /\ Len(fetchq) = fetch_queue_size
    /\ pc["prefetch"] = "wait"
    /\ res["prefetch"].kind = "list"

\* C16: whatever inserts, sample jobs, evictions and cleanups interleave,
\* no observation pointer's reference count is negative.
C16_NeverNegative == \A p \in ObsPointers : refcount[p] >= 0

\* C16 witness: every experience has been created, evicted and cleaned up,
\* the last cleanup taking a count to 0, and every count is back at 0.
C16_Witness ==
    /\ produced = NumRecords
    /\ \A p \in ObsPointers : refcount[p] = 0
    /\ \E c \in Cleaners :
          /\ cl[c].phase = "done"
          /\ cl[c].decr # <<>>
          /\ \E p \in ObsPointers :
                cl[c].decr[1].before[p] = 1 /\ cl[c].decr[1].after[p] = 0

RECURSIVE OccurrencesIn(_, _)
\* How often pointer p occurs in a sequence of batches.
OccurrencesIn(p, batches) ==
    IF batches = <<>> THEN 0
    ELSE Occurrences(p, Head(batches)) + OccurrencesIn(p, Tail(batches))

\* The experiences on their way into the policy: pushed by a producer and
\* not yet inserted.
InTransit ==
    LET ins == SelectSeq(jobs, LAMBDA j : j.fn = "_insert")
    IN  remote \o inbox \o expq \o [k \in 1..Len(ins) |-> ins[k].arg]
        \o (IF cur.fn = "_insert" THEN <<cur.arg>> ELSE <<>>)

\* The sampled batches whose observations have been reserved: returned to
\* the prefetch loop, in the prefetch buffer or handed to the consumer (the
\* engine never releases one).
Reserved ==
    (IF res["prefetch"].kind = "list" THEN <<res["prefetch"].val>> ELSE <<>>)
    \o fetchq \o consumed

\* The live holders of pointer p: the experiences stored in the policy (and,
\* in the claim's favour, those on their way into it) plus the reserved
\* batches.
Holders(p) ==
    Occurrences(p, memory) + Occurrences(p, InTransit) + OccurrencesIn(p, Reserved)

\* C17: in every reachable state each observation pointer's reference
\* count equals the number of its live holders.
C17_CountEqualsHolders == \A p \in ObsPointers : refcount[p] = Holders(p)

\* How often pointer p has been reserved by a sample job.
TimesSampled(p) == OccurrencesIn(p, Reserved)

\* How often pointer p has been evicted: the occurrences of p in the
\* experiences created so far that are no longer stored in the policy nor
\* on their way into it.
TimesEvicted(p) ==
    Occurrences(p, [i \in 1..produced |-> ExpDict(i)])
      - Occurrences(p, memory) - Occurrences(p, InTransit)

\* C18: a reference count goes down only in a cleanup's decrement; sample()
\* hands a batch to the consumer without changing a count; and a mass
\* delete takes no pointer that has been sampled at least as many times as
\* it has been evicted.
C18_OnlyCleanupDecrements ==
    [][/\ \A p \in ObsPointers :
             refcount'[p] < refcount[p] =>
                \E c \in Cleaners :
                   /\ cl'[c] # cl[c]
                   /\ cl'[c].decr # <<>>
                   /\ cl'[c].decr[1].before = refcount
                   /\ cl'[c].decr[1].after = refcount'
       /\ consumed' # consumed => refcount' = refcount
       /\ \A c \in Cleaners :
             Len(cl'[c].mdels) > Len(cl[c].mdels) =>
                \A p \in Range(cl'[c].mdels[Len(cl'[c].mdels)]) \cap ObsPointers :
                   TimesSampled(p) < TimesEvicted(p)
      ]_vars

\* C19: the cleanup of the experiences evicted by evict() runs inside the
\* Evict job: from _evict's return to the end of the decrement and the mass
\* delete the worker stays in that job, no policy operation runs, and the
\* job's result is delivered only with the cleanup done.  insert() runs its
\* cleanup in the calling thread once its job has completed, and returns
\* only when that cleanup is done.
C19_CleanupPlacement ==
    [][/\ cl'["worker"].phase \in {"decr", "mdel"} =>
             (/\ cur'.fn = "_wrapped_evict"
              /\ wpc' \in {"clean", "mdel"}
              /\ InPolicy' = {})
       /\ wpc \in {"clean", "mdel"} =>
             \/ cur' = cur
             \/ (/\ cur' = NoJob
                 /\ cl'["worker"].phase = "done"
                 /\ res'[cur.caller] = [kind |-> "list", val |-> cl'["worker"].ev])
       /\ \A t \in Inserters :
             /\ cl'[t].phase = "mdel" =>
                   (/\ pc'[t] = "mdel"
                    /\ cur' # NoJob => cur'.caller # t
                    /\ \A k \in 1..Len(jobs') : jobs'[k].caller # t)
             /\ (pc[t] # "idle" /\ pc'[t] = "idle") =>
                   (cl'[t].phase = "done" /\ executing'[t] = "none")
      ]_vars

\* C19 witness: an Evict job is between its decrement and its mass delete
\* while an insert job waits in the queue, and the ingest thread is between
\* the decrement and the mass delete of its own cleanup, outside any job.
C19_Witness ==
    /\ wpc = "mdel"
    /\ cur.fn = "_wrapped_evict"
    /\ \E k \in 1..Len(jobs) : jobs[k].fn = "_insert"
    /\ cl["ingest"].phase = "mdel"

\* C20: an eviction thread tests its stop flag at the start of each
\* iteration, before it calls evict and sleeps; so once stop_evict_thread()
\* has set the flag the thread submits no Evict job besides the one it was
\* about to submit, and it ends without any further call.
C20_StopsAfterOneMore ==
    /\ [][\A t \in Range(EvictThreads) :
             /\ (pc[t] = "check" /\ pc'[t] # "check") =>
                   pc'[t] = IF t \in stopped THEN "done" ELSE "call"
             /\ (pc'[t] = "call" /\ pc[t] # "call") => pc[t] = "check"
             /\ (pc'[t] = "wait" /\ pc[t] # "wait") => pc[t] = "call"
             /\ t \in stopped => (t \in stopped' /\ (pc'[t] = "call" => pc[t] = "call"))
         ]_vars
    /\ \A t \in Range(EvictThreads) :
          (t \in stopped) ~> (pc[t] \in {"done", "dead"})

\* C20 witness: the first thread, stopped after it had passed the test, has
\* submitted its one further Evict job, and has ended; a second thread runs.
C20_Witness ==
    /\ "evict1" \in stopped
    /\ pc["evict1"] = "done"
    /\ cl["worker"].phase = "done"
    /\ cl["worker"].ev # <<>>
    /\ evict_thread = "evict2"
    /\ pc["evict2"] = "sleep"

====
